---- MODULE Spec2Model ----
(***************************************************************************)
(* The user API of src/api/index.js: an Express application that keeps an  *)
(* in-memory array of user profiles (users) behind token-gated mutating    *)
(* routes.  A request arrives (Receive), the route it names serves it in   *)
(* one step, and the response leaves (Respond).  The step of a route is    *)
(* its whole middleware chain (authenticateToken, the express-validator    *)
(* chains, the handler): the chain reads only the request before the       *)
(* handler runs, and the handler is synchronous.                           *)
(***************************************************************************)
EXTENDS Integers, Sequences, FiniteSets, TLC

\* ------------------------------------------------------------------ bounds
\* POST /users is not taken once the collection holds MaxUsers profiles or
\* the next id would exceed MaxId.
MaxUsers == 2
MaxId == 3
\* POST /register is not sent once MaxCreds credential records are stored or
\* awaited, no request that awaits is sent while MaxPending requests await,
\* POST /login is not sent once MaxTokens different tokens were issued, and
\* the clock stops after MaxTicks ticks.
MaxCreds == 2
MaxPending == 2
MaxTokens == 1
MaxTicks == 2

\* ------------------------------------------------------- JavaScript values
\* A JSON value of a request body, or the value of an absent key.
Undefined == [t |-> "undefined", n |-> 0, s |-> ""]
Null == [t |-> "null", n |-> 0, s |-> ""]
Num(k) == [t |-> "number", n |-> k, s |-> ""]
Str(x) == [t |-> "string", n |-> 0, s |-> x]

\* !value
falsy(v) ==
    \/ v.t \in {"undefined", "null"}
    \/ v.t = "number" /\ v.n = 0
    \/ v.t = "string" /\ v.s = ""

\* The decimal numerals among the strings of the model, with their values.
Numeral == [s \in {"18", "126"} |-> IF s = "18" THEN 18 ELSE 126]

\* ToNumber(value), as the relational operators apply it: nan marks NaN.
ToNumber(v) ==
    CASE v.t = "number" -> [nan |-> FALSE, n |-> v.n]
      [] v.t = "null" -> [nan |-> FALSE, n |-> 0]
      [] v.t = "string" /\ v.s = "" -> [nan |-> FALSE, n |-> 0]
      [] v.t = "string" /\ v.s \in DOMAIN Numeral -> [nan |-> FALSE, n |-> Numeral[v.s]]
      [] OTHER -> [nan |-> TRUE, n |-> 0]

\* const isAdult = (age) => age >= 18
isAdult(age) == ~ToNumber(age).nan /\ ToNumber(age).n >= 18

\* ------------------------------------------------------------ the requests
JWT_SECRET == "JWT_SECRET"
\* expiresIn: "1h", in seconds
ExpiresIn == 3600
\* The clock advances by half an hour.
TickSeconds == ExpiresIn \div 2

\* One word of an Authorization header: a JSON web token signed with `key`,
\* or plain text that is no token.
NoJwt == [id |-> 0, email |-> "", exp |-> 0, key |-> ""]
TextWord(x) == [text |-> x, jwt |-> NoJwt]
JwtWord(j) == [text |-> "jwt", jwt |-> j]

\* The Authorization headers requests carry: none, a scheme without a token,
\* a token signed with the server's secret and a token signed with another
\* key.
NoHeader == [present |-> FALSE, words |-> <<>>]
Header(ws) == [present |-> TRUE, words |-> ws]
GoodToken ==
    JwtWord([id |-> 1, email |-> "a@x.io", exp |-> ExpiresIn, key |-> JWT_SECRET])
ForgedToken ==
    JwtWord([id |-> 1, email |-> "a@x.io", exp |-> ExpiresIn, key |-> "other"])
Headers ==
    { NoHeader,
      Header(<<TextWord("Bearer")>>),
      Header(<<TextWord("Bearer"), GoodToken>>),
      Header(<<TextWord("Bearer"), ForgedToken>>) }

\* The request bodies: the four keys the routes read, Undefined when absent.
Body(name, email, age, role) ==
    [name |-> name, email |-> email, age |-> age, role |-> role]
NoBody == Body(Undefined, Undefined, Undefined, Undefined)
Bodies ==
    { Body(Str("Al"), Str("a@x.io"), Num(18), Str("admin")),
      Body(Str("Bo"), Str("a@x.io"), Num(17), Str("user")),
      Body(Str("Al"), Str("a@x.io"), Str("126"), Str("admin")),
      NoBody,
      Body(Str("Bo"), Str("a@x.io"), Undefined, Undefined),
      Body(Str(""), Undefined, Undefined, Str("")),
      Body(Num(7), Undefined, Undefined, Undefined),
      Body(Undefined, Undefined, Null, Undefined),
      Body(Undefined, Undefined, Num(17), Undefined),
      Body(Undefined, Undefined, Num(126), Undefined),
      Body(Undefined, Undefined, Str(""), Undefined),
      Body(Undefined, Str("bad"), Undefined, Str("guest")),
      Body(Str(""), Str("bad"), Num(126), Str("guest")) }

Ids == 1 .. MaxId

VARIABLES
    users,      \* let users = []: the profiles, in insertion order
    phase,      \* "idle", "pending" (a request waits for its route), "done"
    req,        \* the request being served
    res,        \* the response to it
    maxIssued,  \* the greatest id a successful POST /users has assigned so far
    created,    \* <<profile>> answered by the last successful POST /users while
                \* no later mutating request has succeeded, else << >>
    cleared,    \* TRUE from a successful DELETE /users to the next successful
                \* POST /users
    usersAuth,  \* let usersAuth = []: the credential records, in insertion order
    pending,    \* the requests suspended at an await (bcrypt.hash, bcrypt.compare)
    tokens,     \* the tokens POST /login has issued
    now         \* the clock, in seconds

authVars == <<usersAuth, pending, tokens, now>>
vars == <<users, phase, req, res, maxIssued, created, cleared, usersAuth, pending,
          tokens, now>>

\* --------------------------------------------------------------- responses
Response(status, kind) ==
    [status |-> status, kind |-> kind, message |-> "", errors |-> <<>>,
     users |-> <<>>, nextId |-> 0, token |-> TextWord("")]
\* res.status(status).json({ message })
MessageResponse(status, m) == [Response(status, "message") EXCEPT !.message = m]
\* res.status(400).json({ errors: errors.array() })
ErrorsResponse(errs) == [Response(400, "errors") EXCEPT !.errors = errs]
\* res.status(status).json(user)
UserResponse(status, u) == [Response(status, "user") EXCEPT !.users = <<u>>]
\* res.json(users)
ListResponse(us) == [Response(200, "list") EXCEPT !.users = us]
\* res.json({ "next-id": n })
NextIdResponse(n) == [Response(200, "next-id") EXCEPT !.nextId = n]
\* res.status(204).send()
EmptyResponse == Response(204, "empty")
\* res.json({ token })
TokenResponse(token) == [Response(200, "token") EXCEPT !.token = token]

Request(op, id, hdr, body) == [op |-> op, id |-> id, hdr |-> hdr, body |-> body]

\* ------------------------------------------------------- authenticateToken
\* authHeader && authHeader.split(" ")[1]
bearerToken(hdr) ==
    IF hdr.present /\ Len(hdr.words) >= 2 THEN hdr.words[2] ELSE TextWord("")

\* Mutant of jwtVerify: the signature alone is checked.
jwtVerifySignature(token) == token.jwt.key = JWT_SECRET

\* jwt.verify(token, JWT_SECRET, ...) calls back without an error: the
\* signature is made with the secret and the token has not expired.
jwtVerify(token) == token.jwt.key = JWT_SECRET /\ now < token.jwt.exp

\* Mutant of authenticateToken: every request is let through.
authenticateNobody(hdr) == 0

\* The status authenticateToken answers with, or 0 when it calls next().
authenticateToken(hdr) ==
    IF bearerToken(hdr) = TextWord("") THEN 401
    ELSE IF ~jwtVerify(bearerToken(hdr)) THEN 403
    ELSE 0

AuthFailure(hdr) ==
    IF authenticateToken(hdr) = 401
    THEN MessageResponse(401, "No token provided")
    ELSE MessageResponse(403, "Invalid token")

\* ------------------------------------------------------------- validators
\* One entry of validationResult(req).array().
ValidationError(msg, param) == [msg |-> msg, param |-> param, location |-> "body"]
Check(ok, msg, param) == IF ok THEN <<>> ELSE <<ValidationError(msg, param)>>

\* The strings of the model that are well-formed e-mail addresses.
EmailAddresses == {"a@x.io"}

isString(v) == v.t = "string"
\* .notEmpty(): the value, as a string, has at least one character
notEmpty(v) == ~(v.t \in {"undefined", "null"} \/ (v.t = "string" /\ v.s = ""))
isEmail(v) == v.t = "string" /\ v.s \in EmailAddresses
\* .isInt({ min, max }): the value, as a string, is a decimal integer in range
isInt(v, min, max) ==
    \/ v.t = "number" /\ min <= v.n /\ v.n <= max
    \/ v.t = "string" /\ v.s \in DOMAIN Numeral
         /\ min <= Numeral[v.s] /\ Numeral[v.s] <= max
\* .isIn(values): the value, as a string, is one of the values
isIn(v, values) == v.t = "string" /\ v.s \in values

\* The four chains, shared by POST and PUT; every validator of a chain runs.
nameChain(v) ==
    Check(isString(v), "Invalid value", "name")
        \o Check(notEmpty(v), "Name is required", "name")
emailChain(v) ==
    Check(notEmpty(v), "Email is required", "email")
        \o Check(isEmail(v), "Valid email format is required", "email")
ageChain(v) == Check(isInt(v, 0, 125), "Age must be between 0 and 125", "age")
roleChain(v) ==
    Check(isIn(v, {"admin", "user"}), "Role must be admin or user", "role")

\* Mutant of postErrors: validation stops at the first field that fails.
postErrorsFirstField(b) ==
    IF nameChain(b.name) # <<>> THEN nameChain(b.name)
    ELSE IF emailChain(b.email) # <<>> THEN emailChain(b.email)
    ELSE IF ageChain(b.age) # <<>> THEN ageChain(b.age)
    ELSE roleChain(b.role)

\* validationResult(req).array() of POST /users
postErrors(b) ==
    nameChain(b.name) \o emailChain(b.email) \o ageChain(b.age) \o roleChain(b.role)

\* .optional({ checkFalsy: true }) and .optional({ nullable: true })
optionalCheckFalsy(v) == falsy(v)
optionalNullable(v) == v.t \in {"undefined", "null"}

\* validationResult(req).array() of PUT /users/:id
putErrors(b) ==
    (IF optionalCheckFalsy(b.name) THEN <<>> ELSE nameChain(b.name))
        \o (IF optionalCheckFalsy(b.email) THEN <<>> ELSE emailChain(b.email))
        \o (IF optionalNullable(b.age) THEN <<>> ELSE ageChain(b.age))
        \o (IF optionalCheckFalsy(b.role) THEN <<>> ELSE roleChain(b.role))

\* ------------------------------------------------------------- the store
\* Mutant of findIndex: the comparison with the id is lost, the first profile
\* matches.
findIndexAny(us, id) == IF Len(us) > 0 THEN 1 ELSE 0

\* users.findIndex((u) => u.id === id): 0 when there is none
findIndex(us, id) ==
    IF \E i \in 1 .. Len(us) : us[i].id = id
    THEN CHOOSE i \in 1 .. Len(us) :
            us[i].id = id /\ \A j \in 1 .. i - 1 : us[j].id # id
    ELSE 0

\* Mutant of splice: users.splice(i), which removes everything from i on.
spliceToEnd(us, i) == SubSeq(us, 1, i - 1)

\* users.splice(i, 1)
splice(us, i) == [k \in 1 .. Len(us) - 1 |-> IF k < i THEN us[k] ELSE us[k + 1]]

\* Mutant of getNextId: a counter of the ids issued so far instead of the
\* last element's id.
getNextIdCounter(us) == maxIssued + 1

\* Mutant of getNextId: the length of the collection instead of the last
\* element's id.
getNextIdLength(us) == Len(us) + 1

\* Mutant of getNextId: the id of the last profile, not the one after it.
getNextIdLast(us) == IF Len(us) > 0 THEN us[Len(us)].id ELSE 1

\* users.length > 0 ? users[users.length - 1].id + 1 : 1
getNextId(us) == IF Len(us) > 0 THEN us[Len(us)].id + 1 ELSE 1

\* const newUser = { id, name, email, age, role, adult: isAdult(age) }
newUser(id, b) ==
    [id |-> id, name |-> b.name, email |-> b.email, age |-> b.age,
     role |-> b.role, adult |-> isAdult(b.age)]

\* Mutant of merge: if (req.body.x) user.x = req.body.x
mergeTruthy(old, new) == IF ~falsy(new) THEN new ELSE old

\* if (req.body.x !== undefined) user.x = req.body.x
merge(old, new) == IF new # Undefined THEN new ELSE old

\* Mutant of updated: adult is recomputed only when the body supplies age.
updatedAdultOnlyWithAge(u, b) ==
    [id |-> u.id,
     name |-> merge(u.name, b.name),
     email |-> merge(u.email, b.email),
     age |-> merge(u.age, b.age),
     role |-> merge(u.role, b.role),
     adult |-> IF b.age \in {Undefined, Null} THEN u.adult ELSE isAdult(b.age)]

\* The profile after the assignments of PUT /users/:id
updated(u, b) ==
    [id |-> u.id,
     name |-> merge(u.name, b.name),
     email |-> merge(u.email, b.email),
     age |-> merge(u.age, b.age),
     role |-> merge(u.role, b.role),
     adult |-> isAdult(merge(u.age, b.age))]

\* ------------------------------------------------------------------- Init
NoRequest == Request("", 0, NoHeader, NoBody)
NoResponse == Response(0, "")

Init ==
    /\ users = <<>>
    /\ phase = "idle"
    /\ req = NoRequest
    /\ res = NoResponse
    /\ maxIssued = 0
    /\ created = <<>>
    /\ cleared = FALSE
    /\ usersAuth = <<>>
    /\ pending = <<>>
    /\ tokens = {}
    /\ now = 0

\* The requests clients send.  Routes without authenticateToken ignore the
\* Authorization header, routes without validators ignore the body.
Requests ==
    {Request(op, 0, NoHeader, NoBody) : op \in {"GET /hello", "GET /users", "GET /next-id"}}
    \cup {Request("GET /users/:id", id, NoHeader, NoBody) : id \in Ids}
    \cup {Request("POST /users", 0, hdr, b) : hdr \in Headers, b \in Bodies}
    \cup {Request("PUT /users/:id", id, hdr, b) : id \in Ids, hdr \in Headers, b \in Bodies}
    \cup {Request("DELETE /users/:id", id, hdr, NoBody) : id \in Ids, hdr \in Headers}
    \cup {Request("DELETE /users", 0, hdr, NoBody) : hdr \in Headers}

\* ---------------------------------------------------------------- actions
\* A request arrives.  POST /users is not sent at the bounds of the model.
Receive ==
    /\ phase = "idle"
    /\ \E r \in Requests :
        /\ r.op = "POST /users" => Len(users) < MaxUsers /\ getNextId(users) <= MaxId
        /\ req' = r
    /\ phase' = "pending"
    /\ UNCHANGED <<users, res, maxIssued, created, cleared>>
    /\ UNCHANGED authVars

\* The response has left; the next request can arrive.
Respond ==
    /\ phase = "done"
    /\ phase' = "idle"
    /\ req' = NoRequest
    /\ res' = NoResponse
    /\ UNCHANGED <<users, maxIssued, created, cleared>>
    /\ UNCHANGED authVars

\* The route op serves the request; the routes of the user profiles leave the
\* credential records, the suspended requests, the tokens and the clock alone.
Serving(op) ==
    /\ phase = "pending" /\ req.op = op
    /\ phase' = "done"
    /\ UNCHANGED req
    /\ UNCHANGED authVars

\* A request that leaves the store as it is and answers r.
Answer(r) == res' = r /\ UNCHANGED <<users, maxIssued, created, cleared>>

\* app.get("/hello")
Hello ==
    /\ Serving("GET /hello")
    /\ Answer(MessageResponse(200, "Hello, API Testing!"))

\* app.get("/users")
GetUsers ==
    /\ Serving("GET /users")
    /\ Answer(ListResponse(users))

\* app.get("/users/:id")
GetUser ==
    /\ Serving("GET /users/:id")
    /\ IF findIndex(users, req.id) = 0
       THEN Answer(MessageResponse(404, "User not found"))
       ELSE Answer(UserResponse(200, users[findIndex(users, req.id)]))

\* Mutant of PostUser: the profile is pushed before the validation result is
\* looked at.
PostUserPushFirst ==
    /\ Serving("POST /users")
    /\ IF authenticateToken(req.hdr) # 0
       THEN Answer(AuthFailure(req.hdr))
       ELSE LET u == newUser(getNextId(users), req.body) IN
            /\ users' = Append(users, u)
            /\ res' = IF postErrors(req.body) # <<>>
                      THEN ErrorsResponse(postErrors(req.body))
                      ELSE UserResponse(201, u)
            /\ maxIssued' = IF u.id > maxIssued THEN u.id ELSE maxIssued
            /\ created' = <<u>>
            /\ cleared' = FALSE

\* app.post("/users", authenticateToken, [...], handler)
PostUser ==
    /\ Serving("POST /users")
    /\ IF authenticateToken(req.hdr) # 0
       THEN Answer(AuthFailure(req.hdr))
       ELSE IF postErrors(req.body) # <<>>
       THEN Answer(ErrorsResponse(postErrors(req.body)))
       ELSE LET u == newUser(getNextId(users), req.body) IN
            /\ users' = Append(users, u)
            /\ res' = UserResponse(201, u)
            /\ maxIssued' = IF u.id > maxIssued THEN u.id ELSE maxIssued
            /\ created' = <<u>>
            /\ cleared' = FALSE

\* Mutant of PutUser: the body is validated before the token is checked.
PutUserValidateFirst ==
    /\ Serving("PUT /users/:id")
    /\ IF putErrors(req.body) # <<>>
       THEN Answer(ErrorsResponse(putErrors(req.body)))
       ELSE IF authenticateToken(req.hdr) # 0
       THEN Answer(AuthFailure(req.hdr))
       ELSE IF findIndex(users, req.id) = 0
       THEN Answer(MessageResponse(404, "User not found"))
       ELSE LET i == findIndex(users, req.id) IN
            /\ users' = [users EXCEPT ![i] = updated(users[i], req.body)]
            /\ res' = UserResponse(200, updated(users[i], req.body))
            /\ created' = <<>>
            /\ UNCHANGED <<maxIssued, cleared>>

\* app.put("/users/:id", authenticateToken, [...], handler)
PutUser ==
    /\ Serving("PUT /users/:id")
    /\ IF authenticateToken(req.hdr) # 0
       THEN Answer(AuthFailure(req.hdr))
       ELSE IF putErrors(req.body) # <<>>
       THEN Answer(ErrorsResponse(putErrors(req.body)))
       ELSE IF findIndex(users, req.id) = 0
       THEN Answer(MessageResponse(404, "User not found"))
       ELSE LET i == findIndex(users, req.id) IN
            /\ users' = [users EXCEPT ![i] = updated(users[i], req.body)]
            /\ res' = UserResponse(200, updated(users[i], req.body))
            /\ created' = <<>>
            /\ UNCHANGED <<maxIssued, cleared>>

\* app.delete("/users/:id", authenticateToken, handler)
DeleteUser ==
    /\ Serving("DELETE /users/:id")
    /\ IF authenticateToken(req.hdr) # 0
       THEN Answer(AuthFailure(req.hdr))
       ELSE IF findIndex(users, req.id) = 0
       THEN Answer(MessageResponse(404, "User not found"))
       ELSE /\ users' = splice(users, findIndex(users, req.id))
            /\ res' = EmptyResponse
            /\ created' = <<>>
            /\ UNCHANGED <<maxIssued, cleared>>

\* Mutant of DeleteUsers: the credential store is emptied too.
DeleteUsersAndCredentials ==
    /\ phase = "pending" /\ req.op = "DELETE /users"
    /\ phase' = "done"
    /\ IF authenticateToken(req.hdr) # 0
       THEN /\ res' = AuthFailure(req.hdr)
            /\ UNCHANGED <<users, usersAuth, created, cleared>>
       ELSE /\ users' = <<>>
            /\ usersAuth' = <<>>
            /\ res' = EmptyResponse
            /\ created' = <<>>
            /\ cleared' = TRUE
    /\ UNCHANGED <<req, maxIssued, pending, tokens, now>>

\* app.delete("/users", authenticateToken, handler)
DeleteUsers ==
    /\ Serving("DELETE /users")
    /\ IF authenticateToken(req.hdr) # 0
       THEN Answer(AuthFailure(req.hdr))
       ELSE /\ users' = <<>>
            /\ res' = EmptyResponse
            /\ created' = <<>>
            /\ cleared' = TRUE
            /\ UNCHANGED maxIssued

\* app.get("/next-id")
GetNextId ==
    /\ Serving("GET /next-id")
    /\ Answer(NextIdResponse(getNextId(users)))

\* ------------------------------------------------- registration and login
\* req.body of POST /register and POST /login
Credentials(email, password) == [email |-> email, password |-> password]
CredentialsSent ==
    { Credentials(Str("a@x.io"), Str("p")),
      Credentials(Str("a@x.io"), Str("q")),
      Credentials(Str("b@x.io"), Str("p")),
      Credentials(Str("a@x.io"), Str("")),
      Credentials(Str("a@x.io"), Undefined),
      Credentials(Str(""), Str("p")),
      Credentials(Undefined, Undefined) }

\* bcrypt.hash(password, 10): the digest of the password under a fresh salt
Salts == {"salt1", "salt2"}
bcryptHash(password, salt) == [rounds |-> 10, salt |-> salt, digestOf |-> password.s]
\* bcrypt.compare(password, hash)
bcryptCompare(password, hash) == password.t = "string" /\ hash.digestOf = password.s

\* jwt.sign({ id, email }, JWT_SECRET, { expiresIn: "1h" })
jwtSign(user) ==
    JwtWord([id |-> user.id, email |-> user.email.s, exp |-> now + ExpiresIn,
             key |-> JWT_SECRET])

\* Mutant of findByEmail: no record is ever found.
findNobody(auth, email) == 0

\* usersAuth.find((u) => u.email === email): the index, 0 when there is none
findByEmail(auth, email) ==
    IF \E i \in 1 .. Len(auth) : auth[i].email = email
    THEN CHOOSE i \in 1 .. Len(auth) :
            auth[i].email = email /\ \A j \in 1 .. i - 1 : auth[j].email # email
    ELSE 0

\* Mutant of registerOutcome: the look-up comes before the check of the body.
registerOutcomeLookupFirst(auth, c) ==
    IF findByEmail(auth, c.email) # 0 THEN "exists"
    ELSE IF falsy(c.email) \/ falsy(c.password) THEN "required"
    ELSE "hash"

\* The branch POST /register takes before it awaits.
registerOutcome(auth, c) ==
    IF falsy(c.email) \/ falsy(c.password) THEN "required"
    ELSE IF findByEmail(auth, c.email) # 0 THEN "exists"
    ELSE "hash"

\* The branch POST /login takes before it awaits.
loginOutcome(auth, c) ==
    IF falsy(c.email) \/ falsy(c.password) THEN "required"
    ELSE IF findByEmail(auth, c.email) = 0 THEN "unknown"
    ELSE "compare"

RequiredResponse == MessageResponse(400, "Email and password are required")
ExistsResponse == MessageResponse(400, "Email already exists")
RegisteredResponse == MessageResponse(201, "User registered")
\* Mutant of UnknownEmailResponse: an answer of its own for an unknown e-mail.
UnknownEmailNotFound == MessageResponse(404, "User not found")
\* if (!user) return res.status(401)...
UnknownEmailResponse == MessageResponse(401, "Invalid email or password")
\* if (!match) return res.status(401)...
WrongPasswordResponse == MessageResponse(401, "Invalid email or password")

\* A request suspended at its await: user is the index of the record that
\* POST /login found, 0 for POST /register.
Suspended(op, c, user) == [op |-> op, body |-> c, user |-> user]
remove(q, i) == [k \in 1 .. Len(q) - 1 |-> IF k < i THEN q[k] ELSE q[k + 1]]
awaiting(op) == {i \in 1 .. Len(pending) : pending[i].op = op}

\* The requests sent to registration and login, several of them in flight.
RequestsAuth ==
    {Request(op, 0, NoHeader, c) : op \in {"POST /register", "POST /login"},
                                   c \in CredentialsSent}

\* A request arrives while others are suspended at their await.
ReceiveAuth ==
    /\ phase = "idle"
    /\ \E r \in RequestsAuth :
        /\ Len(pending) < MaxPending
        /\ r.op = "POST /register" =>
              Len(usersAuth) + Cardinality(awaiting("POST /register")) < MaxCreds
        /\ req' = r
    /\ phase' = "pending"
    /\ UNCHANGED <<users, res, maxIssued, created, cleared>>
    /\ UNCHANGED authVars

\* The Authorization headers of the requests sent by clients that hold tokens.
HeadersSent ==
    { NoHeader,
      Header(<<TextWord("Bearer")>>),
      Header(<<TextWord("Bearer"), TextWord("garbage")>>),
      Header(<<TextWord("Basic"), TextWord("garbage")>>),
      Header(<<TextWord("Bearer"), ForgedToken>>) }
    \cup {Header(<<TextWord("Bearer"), tk>>) : tk \in tokens}
    \cup {Header(<<TextWord("Basic"), tk>>) : tk \in tokens}
    \cup {Header(<<tk>>) : tk \in tokens}

ValidBody == Body(Str("Al"), Str("a@x.io"), Num(18), Str("admin"))

CredentialsToken ==
    { Credentials(Str("a@x.io"), Str("p")),
      Credentials(Str("a@x.io"), Str("q")),
      Credentials(Str("b@x.io"), Str("p")) }

\* The requests sent by clients that register, log in and use their tokens.
RequestsToken ==
    {Request("POST /register", 0, NoHeader, c) :
        c \in {c \in CredentialsToken : c.password = Str("p")}}
    \cup {Request("POST /login", 0, NoHeader, c) : c \in CredentialsToken}
    \cup {Request(op, 0, NoHeader, NoBody) : op \in {"GET /hello", "GET /users", "GET /next-id"}}
    \cup {Request("GET /users/:id", 1, NoHeader, NoBody)}
    \cup {Request("POST /users", 0, hdr, b) : hdr \in HeadersSent, b \in {ValidBody, NoBody}}
    \cup {Request("PUT /users/:id", 1, hdr, ValidBody) : hdr \in HeadersSent}
    \cup {Request("DELETE /users/:id", 1, hdr, NoBody) : hdr \in HeadersSent}
    \cup {Request("DELETE /users", 0, hdr, NoBody) : hdr \in HeadersSent}

\* A request arrives; a registration or a login arrives when the one before
\* it is answered, the others also while one is suspended at its await.
ReceiveToken ==
    /\ phase = "idle"
    /\ \E r \in RequestsToken :
        /\ r.op \in {"POST /register", "POST /login"} => pending = <<>>
        /\ r.op = "POST /users" => users = <<>>
        /\ r.op = "POST /register" => Len(usersAuth) < MaxCreds
        /\ req' = r
    /\ phase' = "pending"
    /\ UNCHANGED <<users, res, maxIssued, created, cleared>>
    /\ UNCHANGED authVars

\* The client of POST /login takes the token of the answer for its later
\* requests.
Keep ==
    /\ phase = "done"
    /\ res.kind = "token"
    /\ Cardinality(tokens) < MaxTokens
    /\ tokens' = tokens \cup {res.token}
    /\ phase' = "idle"
    /\ req' = NoRequest
    /\ res' = NoResponse
    /\ UNCHANGED <<users, maxIssued, created, cleared, usersAuth, pending, now>>

\* The clock advances while no handler runs.
Tick ==
    /\ phase = "idle"
    /\ now < MaxTicks * TickSeconds
    /\ now' = now + TickSeconds
    /\ UNCHANGED <<users, phase, req, res, maxIssued, created, cleared, usersAuth,
                   pending, tokens>>

\* The handler suspends at its await: the event loop is free again.
Suspend(user) ==
    /\ pending' = Append(pending, Suspended(req.op, req.body, user))
    /\ phase' = "idle"
    /\ req' = NoRequest
    /\ res' = NoResponse
    /\ UNCHANGED <<users, maxIssued, created, cleared, usersAuth, tokens, now>>

\* The handler answers r and changes nothing.
Reply(r) ==
    /\ res' = r
    /\ phase' = "done"
    /\ UNCHANGED <<users, req, maxIssued, created, cleared>>
    /\ UNCHANGED authVars

\* app.post("/register"), up to await bcrypt.hash
Register ==
    /\ phase = "pending" /\ req.op = "POST /register"
    /\ CASE registerOutcome(usersAuth, req.body) = "required" -> Reply(RequiredResponse)
         [] registerOutcome(usersAuth, req.body) = "exists" -> Reply(ExistsResponse)
         [] OTHER -> Suspend(0)

\* Mutant of RegisterHashed: the id is the next of the credential store's own
\* sequence.
RegisterHashedOwnIds ==
    /\ phase = "idle"
    /\ \E i \in awaiting("POST /register"), salt \in Salts :
        /\ usersAuth' = Append(usersAuth,
                               [id |-> Len(usersAuth) + 1,
                                email |-> pending[i].body.email,
                                passwordHash |-> bcryptHash(pending[i].body.password, salt)])
        /\ pending' = remove(pending, i)
        /\ req' = Request("POST /register", 0, NoHeader, pending[i].body)
    /\ res' = RegisteredResponse
    /\ phase' = "done"
    /\ UNCHANGED <<users, maxIssued, created, cleared, tokens, now>>

\* app.post("/register"), after await bcrypt.hash
RegisterHashed ==
    /\ phase = "idle"
    /\ \E i \in awaiting("POST /register"), salt \in Salts :
        /\ usersAuth' = Append(usersAuth,
                               [id |-> getNextId(users),
                                email |-> pending[i].body.email,
                                passwordHash |-> bcryptHash(pending[i].body.password, salt)])
        /\ pending' = remove(pending, i)
        /\ req' = Request("POST /register", 0, NoHeader, pending[i].body)
    /\ res' = RegisteredResponse
    /\ phase' = "done"
    /\ UNCHANGED <<users, maxIssued, created, cleared, tokens, now>>

\* app.post("/login"), up to await bcrypt.compare
Login ==
    /\ phase = "pending" /\ req.op = "POST /login"
    /\ CASE loginOutcome(usersAuth, req.body) = "required" -> Reply(RequiredResponse)
         [] loginOutcome(usersAuth, req.body) = "unknown" -> Reply(UnknownEmailResponse)
         [] OTHER -> Suspend(findByEmail(usersAuth, req.body.email))

\* app.post("/login"), after await bcrypt.compare
LoginCompared ==
    /\ phase = "idle"
    /\ \E i \in awaiting("POST /login") :
        LET user == usersAuth[pending[i].user] IN
        /\ pending' = remove(pending, i)
        /\ req' = Request("POST /login", 0, NoHeader, pending[i].body)
        /\ IF bcryptCompare(pending[i].body.password, user.passwordHash)
           THEN res' = TokenResponse(jwtSign(user))
           ELSE res' = WrongPasswordResponse
    /\ phase' = "done"
    /\ UNCHANGED <<users, maxIssued, created, cleared, usersAuth, tokens, now>>

Next ==
    \/ Receive
    \/ Hello
    \/ GetUsers
    \/ GetUser
    \/ PostUser
    \/ PutUser
    \/ DeleteUser
    \/ DeleteUsers
    \/ GetNextId
    \/ Respond

Spec == Init /\ [][Next]_vars

\* ------------------------------- the variant without authentication
\* Mutant of plainGetNextId: the id of the last profile, not the one after it.
plainGetNextIdLast(us) == IF Len(us) > 0 THEN us[Len(us)].id ELSE 1

\* getNextId of the variant
plainGetNextId(us) == IF Len(us) > 0 THEN us[Len(us)].id + 1 ELSE 1

\* What a handler of the variant leaves: the collection and the response.
Outcome(us, r) == [users |-> us, res |-> r]

\* app.get("/users") of the variant
plainGetUsers(us, r) == Outcome(us, ListResponse(us))

\* app.get("/users/:id") of the variant
plainGetUser(us, r) ==
    IF \A i \in 1 .. Len(us) : us[i].id # r.id
    THEN Outcome(us, MessageResponse(404, "User not found"))
    ELSE Outcome(us, UserResponse(200, us[findIndex(us, r.id)]))

\* app.post("/users", [...], handler) of the variant
plainPostUser(us, r) ==
    IF postErrors(r.body) # <<>>
    THEN Outcome(us, ErrorsResponse(postErrors(r.body)))
    ELSE LET u == newUser(plainGetNextId(us), r.body) IN
         Outcome(Append(us, u), UserResponse(201, u))

\* app.put("/users/:id", [...], handler) of the variant
plainPutUser(us, r) ==
    IF putErrors(r.body) # <<>>
    THEN Outcome(us, ErrorsResponse(putErrors(r.body)))
    ELSE IF \A i \in 1 .. Len(us) : us[i].id # r.id
    THEN Outcome(us, MessageResponse(404, "User not found"))
    ELSE LET i == findIndex(us, r.id) IN
         Outcome([us EXCEPT ![i] = updated(us[i], r.body)],
                 UserResponse(200, updated(us[i], r.body)))

\* app.delete("/users/:id", handler) of the variant
plainDeleteUser(us, r) ==
    IF \A i \in 1 .. Len(us) : us[i].id # r.id
    THEN Outcome(us, MessageResponse(404, "User not found"))
    ELSE Outcome(splice(us, findIndex(us, r.id)), EmptyResponse)

\* app.delete("/users", handler) of the variant
plainDeleteUsers(us, r) == Outcome(<<>>, EmptyResponse)

\* app.get("/next-id") of the variant
plainGetNextIdRoute(us, r) == Outcome(us, NextIdResponse(plainGetNextId(us)))

\* The variant serves request r on the collection us.
unauthenticated(us, r) ==
    CASE r.op = "GET /users" -> plainGetUsers(us, r)
      [] r.op = "GET /users/:id" -> plainGetUser(us, r)
      [] r.op = "POST /users" -> plainPostUser(us, r)
      [] r.op = "PUT /users/:id" -> plainPutUser(us, r)
      [] r.op = "DELETE /users/:id" -> plainDeleteUser(us, r)
      [] r.op = "DELETE /users" -> plainDeleteUsers(us, r)
      [] r.op = "GET /next-id" -> plainGetNextIdRoute(us, r)

\* Registration and login with several requests in flight.
NextAuth ==
    \/ ReceiveAuth
    \/ Register
    \/ RegisterHashed
    \/ Login
    \/ LoginCompared
    \/ Respond

SpecAuth == Init /\ [][NextAuth]_vars

\* Registration, login and the protected routes called with the tokens issued,
\* while the clock advances.
NextToken ==
    \/ ReceiveToken
    \/ Tick
    \/ Register
    \/ RegisterHashed
    \/ Login
    \/ LoginCompared
    \/ Hello
    \/ GetUsers
    \/ GetUser
    \/ GetNextId
    \/ PostUser
    \/ PutUser
    \/ DeleteUser
    \/ DeleteUsers
    \/ Respond
    \/ Keep

SpecToken == Init /\ [][NextToken]_vars

\* ================================================================= claims
\* The request being served carries a token the verifier accepts.
Authenticated == req.hdr = Header(<<TextWord("Bearer"), GoodToken>>)
\* No profile of the collection has the id of the request.
IdAbsent == \A i \in 1 .. Len(users) : users[i].id # req.id
IdsOf(us) == {us[i].id : i \in 1 .. Len(us)}
\* The step serves a request of route op.
Serves(op) == phase = "pending" /\ req.op = op /\ phase' = "done"
Served(op) == phase = "done" /\ req.op = op

\* C1: every successful POST /users answers, and stores last, a profile whose
\* id is the id of the last profile of the collection plus one, or 1 when the
\* collection is empty.
C1_IdFromLastElement ==
    [][(Serves("POST /users") /\ res'.status = 201) =>
          LET expected == IF users = <<>> THEN 1 ELSE users[Len(users)].id + 1 IN
          /\ res'.users[1].id = expected
          /\ Len(users') = Len(users) + 1
          /\ users'[Len(users')].id = expected]_vars

\* C1 witness: a create was answered 201 with an id below one issued before
\* (the id is reused after deletions).
C1_Witness ==
    /\ Served("POST /users") /\ res.status = 201
    /\ res.users[1].id < maxIssued

\* C2 (as claimed): the id a successful POST /users assigns is greater than
\* every id assigned by an earlier successful POST /users.
C2_IdsMonotonic ==
    [][(Serves("POST /users") /\ res'.status = 201) =>
          res'.users[1].id > maxIssued]_vars

\* C3: every stored profile has adult = (age >= 18), with age converted to a
\* number as >= converts it (null counts as 0).
C3_AdultDerived ==
    \A i \in 1 .. Len(users) :
        users[i].adult = (~ToNumber(users[i].age).nan /\ ToNumber(users[i].age).n >= 18)

\* C3 witness: an update whose body has no age was answered 200 for a profile
\* that an earlier update had made a minor.
C3_Witness ==
    /\ Served("PUT /users/:id") /\ res.status = 200
    /\ req.body.age = Undefined
    /\ res.users[1].age = Num(17) /\ res.users[1].adult = FALSE
    /\ res.users[1].name = Str("Al")

\* C4 (as claimed): every stored profile has an integer age in [0,125] and a
\* role that is "admin" or "user".
C4_AgeAndRoleInRange ==
    \A i \in 1 .. Len(users) :
        /\ users[i].age.t = "number"
        /\ 0 <= users[i].age.n /\ users[i].age.n <= 125
        /\ users[i].role \in {Str("admin"), Str("user")}

\* C5: an authenticated POST /users or PUT /users/{id} whose body fails a
\* validation rule is answered 400 with a non-empty errors list and leaves the
\* collection as it was.
C5_NoPartialApplication ==
    [][((\/ Serves("POST /users") /\ postErrors(req.body) # <<>>
         \/ Serves("PUT /users/:id") /\ putErrors(req.body) # <<>>)
        /\ Authenticated) =>
          /\ res'.status = 400 /\ res'.kind = "errors" /\ res'.errors # <<>>
          /\ users' = users]_vars

\* C5 witness: a PUT for a stored profile was answered 400 although part of
\* its body (the name key) passes its rule.
C5_Witness ==
    /\ Served("PUT /users/:id") /\ res.status = 400
    /\ ~IdAbsent
    /\ req.body.age = Num(126)

\* C6 (as claimed): an authenticated PUT /users/{id} for a stored profile
\* whose body has the empty string as name is answered 400 with a "Name is
\* required" violation, and the collection (the profile's name with it) stays
\* as it was.
C6_EmptyNameRejected ==
    [][(Serves("PUT /users/:id") /\ Authenticated /\ ~IdAbsent
        /\ req.body.name = Str("")) =>
          /\ res'.status = 400
          /\ \E k \in 1 .. Len(res'.errors) : res'.errors[k].msg = "Name is required"
          /\ users' = users]_vars

NotFound == MessageResponse(404, "User not found")

\* C7 (as claimed): GET /users/{id}, and authenticated PUT and DELETE
\* /users/{id}, for an id that is not in the collection are answered 404
\* "User not found" whatever the body is, and leave the collection as it was.
C7_AbsentIdNotFound ==
    [][((\/ Serves("GET /users/:id")
         \/ Serves("PUT /users/:id") /\ Authenticated
         \/ Serves("DELETE /users/:id") /\ Authenticated)
        /\ IdAbsent) =>
          res' = NotFound /\ users' = users]_vars

\* C7 (amended): the same for GET, for authenticated DELETE and for
\* authenticated PUT with a body that passes validation; an authenticated PUT
\* with a body that fails validation is answered 400 for an absent id, and
\* also leaves the collection as it was.
C7_AbsentIdNotFoundIfValid ==
    [][((\/ Serves("GET /users/:id")
         \/ Serves("PUT /users/:id") /\ Authenticated
         \/ Serves("DELETE /users/:id") /\ Authenticated)
        /\ IdAbsent) =>
          /\ users' = users
          /\ IF req.op = "PUT /users/:id" /\ putErrors(req.body) # <<>>
             THEN res'.status = 400
             ELSE res' = NotFound]_vars

\* C7 witness: an update with a non-empty valid body for an id that is not in
\* a non-empty collection was answered 404.
C7_Witness ==
    /\ Served("PUT /users/:id") /\ res = NotFound
    /\ req.body.name = Str("Bo")
    /\ users # <<>>

C9_RoundTrip ==
    [][(Serves("GET /users/:id") /\ created # <<>> /\ req.id = created[1].id) =>
          res'.status = 200 /\ res'.users = created]_vars

\* C9 witness: the profile created last, second in the collection, was read
\* back.
C9_Witness ==
    /\ Served("GET /users/:id") /\ res.status = 200
    /\ created # <<>> /\ req.id = created[1].id
    /\ Len(users) = 2

\* C10: an authenticated DELETE /users is answered 204 and leaves the
\* collection empty; from then until the next successful POST /users, GET
\* /users answers the empty list, GET /next-id answers 1, and that POST is
\* assigned id 1.
C10_DeleteAllResets ==
    [][/\ (Serves("DELETE /users") /\ Authenticated) =>
            res'.status = 204 /\ users' = <<>>
       /\ (cleared /\ Serves("GET /users")) =>
            res'.status = 200 /\ res'.users = <<>>
       /\ (cleared /\ Serves("GET /next-id")) =>
            res'.status = 200 /\ res'.nextId = 1
       /\ (cleared /\ Serves("POST /users") /\ res'.status = 201) =>
            res'.users[1].id = 1]_vars

\* C10 witness: after ids up to 2 were issued and the collection was cleared,
\* GET /next-id was answered 1.
C10_Witness ==
    /\ Served("GET /next-id") /\ res.nextId = 1
    /\ cleared /\ maxIssued >= 2

\* C11: a PUT /users/{id} answered 200 gives each of name, email, age, role
\* the value of the body when the key is present and keeps the stored value
\* when it is absent; the id, the other profiles, the order and the length of
\* the collection stay; the answer is the profile as stored; with an empty
\* body the profile is unchanged.
C11_PartialMerge ==
    [][(Serves("PUT /users/:id") /\ res'.status = 200) =>
          LET i == CHOOSE k \in 1 .. Len(users) : users[k].id = req.id
              kept(old, new) == IF new # Undefined THEN new ELSE old
          IN  /\ Len(users') = Len(users)
              /\ \A j \in 1 .. Len(users) : j # i => users'[j] = users[j]
              /\ users'[i].id = users[i].id
              /\ users'[i].name = kept(users[i].name, req.body.name)
              /\ users'[i].email = kept(users[i].email, req.body.email)
              /\ users'[i].age = kept(users[i].age, req.body.age)
              /\ users'[i].role = kept(users[i].role, req.body.role)
              /\ res'.users = <<users'[i]>>
              /\ req.body = NoBody => users'[i] = users[i]]_vars

\* C11 witness: an update of name and email only was answered 200 for the
\* first of two profiles, whose age and role are the ones it was created with.
C11_Witness ==
    /\ Served("PUT /users/:id") /\ res.status = 200
    /\ req.body = Body(Str("Bo"), Str("a@x.io"), Undefined, Undefined)
    /\ Len(users) = 2 /\ users[1].id = req.id
    /\ users[1].name = Str("Bo") /\ users[1].age = Num(18)
    /\ users[1].role = Str("admin")

\* The fields in the order of the validator chains.
FieldRank(param) ==
    CASE param = "name" -> 1 [] param = "email" -> 2
      [] param = "age" -> 3 [] param = "role" -> 4
\* The request being served violates a rule of the field.
Violates(param) ==
    LET v == CASE param = "name" -> req.body.name [] param = "email" -> req.body.email
               [] param = "age" -> req.body.age [] param = "role" -> req.body.role
        chain == CASE param = "name" -> nameChain(v) [] param = "email" -> emailChain(v)
                   [] param = "age" -> ageChain(v) [] param = "role" -> roleChain(v)
        skipped == /\ req.op = "PUT /users/:id"
                   /\ IF param = "age" THEN v \in {Undefined, Null} ELSE falsy(v)
    IN  ~skipped /\ chain # <<>>

\* C20: an authenticated POST /users or PUT /users/{id} whose body violates
\* the rules of one or more fields is answered by one 400 whose errors list
\* has an entry for every violated field and is ordered name, email, age,
\* role.
C20_AllFieldsReported ==
    [][((Serves("POST /users") \/ Serves("PUT /users/:id")) /\ Authenticated
        /\ \E f \in {"name", "email", "age", "role"} : Violates(f)) =>
          /\ res'.status = 400
          /\ \A f \in {"name", "email", "age", "role"} :
                Violates(f) => \E k \in 1 .. Len(res'.errors) : res'.errors[k].param = f
          /\ \A k, l \in 1 .. Len(res'.errors) :
                k < l => FieldRank(res'.errors[k].param) <= FieldRank(res'.errors[l].param)]_vars

\* C20 witness: a create whose body violates the rules of all four fields was
\* answered with entries for name, email, age and role.
C20_Witness ==
    /\ Served("POST /users") /\ res.status = 400
    /\ {res.errors[k].param : k \in 1 .. Len(res.errors)} = {"name", "email", "age", "role"}

\* ------------------------------------------------------------------ tokens
Protected == {"POST /users", "PUT /users/:id", "DELETE /users/:id", "DELETE /users"}
NoTokenProvided == MessageResponse(401, "No token provided")
InvalidToken == MessageResponse(403, "Invalid token")

BearerScheme(hdr) ==
    hdr.present /\ Len(hdr.words) = 2 /\ hdr.words[1] = TextWord("Bearer")

\* C13: a request to a protected route whose Authorization header is absent
\* or is not of the form "Bearer <token>" is answered 401 "No token provided";
\* one whose header has that form and whose token is malformed or is not
\* signed with the secret is answered 403 "Invalid token"; in both cases the
\* handler does not run: the profile collection stays as it was.
C13_TwoFailures ==
    [][ (phase = "pending" /\ req.op \in Protected)
            => /\ ~BearerScheme(req.hdr)
                    => res' = NoTokenProvided /\ users' = users
               /\ (BearerScheme(req.hdr) /\ req.hdr.words[2].jwt.key # JWT_SECRET)
                    => res' = InvalidToken /\ users' = users ]_vars

\* The same for the one case of C13 that the handler runs: a header of
\* another scheme than Bearer, carrying an issued token, changes the
\* collection.
C13_OtherSchemeNeverServed ==
    [][ (phase = "pending" /\ req.op \in Protected /\ ~BearerScheme(req.hdr))
            => users' = users ]_vars

\* The request carries, as "Bearer <token>", a token that POST /login issued.
CarriesIssued ==
    /\ phase = "pending" /\ req.op \in Protected
    /\ BearerScheme(req.hdr)
    /\ req.hdr.words[2] \in tokens

\* C14: the token that a successful login issues at time t is signed with the
\* secret and expires at exactly t + 1 hour; a protected request that carries
\* an issued token passes the verifier when the time is before the token's
\* expiry, whatever was deleted, registered or issued since, and is answered
\* 403 "Invalid token" from the expiry on.
C14_ExpiryOnly ==
    [][ /\ (phase = "idle" /\ phase' = "done" /\ res'.kind = "token")
            => /\ res'.token.jwt.exp = now + ExpiresIn
               /\ res'.token.jwt.key = JWT_SECRET
        /\ CarriesIssued
            => /\ now < req.hdr.words[2].jwt.exp => res'.status \notin {401, 403}
               /\ now >= req.hdr.words[2].jwt.exp
                    => res' = InvalidToken /\ users' = users ]_vars

\* A token issued at time 0 was refused one hour later, after a second
\* registration, and the profile it had created is still there.
C14_Witness ==
    /\ Served("DELETE /users")
    /\ BearerScheme(req.hdr)
    /\ req.hdr.words[2] \in tokens
    /\ req.hdr.words[2].jwt.exp = ExpiresIn
    /\ now = ExpiresIn
    /\ res = InvalidToken
    /\ Len(usersAuth) = 2
    /\ Len(users) > 0

\* --------------------------------------------------- registration and login
\* The request, of route op, has a non-empty email and a non-empty password.
Filled(op) ==
    /\ phase = "pending" /\ req.op = op
    /\ ~falsy(req.body.email) /\ ~falsy(req.body.password)
\* The step completes a request of route op that was suspended at its await.
Completes(op) == phase = "idle" /\ phase' = "done" /\ req'.op = op
EmailsOf(auth) == {auth[i].email : i \in 1 .. Len(auth)}

\* C15: POST /register with a non-empty email and password whose email is in
\* the credential store is answered 400 "Email already exists" and leaves the
\* store as it was; otherwise it goes on to hash the password, and when it
\* completes it appends exactly one record, holding that email and a hash of
\* that password (not the password), and answers 201 with the body
\* {message: "User registered"}; nothing else changes the credential store.
C15_Register ==
    [][ /\ Filled("POST /register")
            => /\ usersAuth' = usersAuth
               /\ IF req.body.email \in EmailsOf(usersAuth)
                  THEN res' = ExistsResponse /\ pending' = pending
                  ELSE /\ Len(pending') = Len(pending) + 1
                       /\ pending'[Len(pending')].body = req.body
        /\ Completes("POST /register")
            => /\ Len(usersAuth') = Len(usersAuth) + 1
               /\ SubSeq(usersAuth', 1, Len(usersAuth)) = usersAuth
               /\ usersAuth'[Len(usersAuth')].email = req'.body.email
               /\ usersAuth'[Len(usersAuth')].passwordHash # req'.body.password
               /\ bcryptCompare(req'.body.password, usersAuth'[Len(usersAuth')].passwordHash)
               /\ res' = MessageResponse(201, "User registered")
        /\ usersAuth' # usersAuth => Completes("POST /register") ]_vars

\* A second registration of a registered e-mail address, with another
\* password, was refused.
C15_Witness ==
    /\ Served("POST /register")
    /\ res = ExistsResponse
    /\ Len(usersAuth) = 1
    /\ usersAuth[1].email = req.body.email
    /\ ~bcryptCompare(req.body.password, usersAuth[1].passwordHash)

\* C16: no two records of the credential store have the same email, also
\* when several registrations of one email are suspended at bcrypt.hash at
\* the same time.
C16_EmailsUnique ==
    \A i, j \in 1 .. Len(usersAuth) :
        i # j => usersAuth[i].email # usersAuth[j].email

InvalidLogin == MessageResponse(401, "Invalid email or password")

\* C17: a POST /login with an email that no credential record has, and a POST
\* /login with a registered email and a password that does not verify, get
\* the same answer, 401 {message: "Invalid email or password"}, and no token.
C17_SameAnswer ==
    [][ /\ (Filled("POST /login") /\ req.body.email \notin EmailsOf(usersAuth))
            => res' = InvalidLogin /\ phase' = "done"
        /\ (/\ Completes("POST /login")
            /\ req'.body.email \in EmailsOf(usersAuth)
            /\ \A i \in 1 .. Len(usersAuth) :
                    usersAuth[i].email = req'.body.email
                        => ~bcryptCompare(req'.body.password, usersAuth[i].passwordHash))
            => res' = InvalidLogin ]_vars

\* A login with a registered email and a wrong password was refused.
C17_Witness ==
    /\ Served("POST /login")
    /\ res = InvalidLogin
    /\ req.body.email \in EmailsOf(usersAuth)
    /\ \A i \in 1 .. Len(usersAuth) :
            ~bcryptCompare(req.body.password, usersAuth[i].passwordHash)

\* Some credential record has the email of c and a hash that the password of
\* c verifies against.
Registered(auth, c) ==
    \E i \in 1 .. Len(auth) :
        auth[i].email = c.email /\ bcryptCompare(c.password, auth[i].passwordHash)

\* C18: POST /login answers 200 with a token exactly when the email and the
\* password are non-empty and a credential record has that email and a hash
\* that the password verifies against, and the token carries the id and the
\* email of that record: who registered with (e, p) logs in with (e, p).
C18_LoginIff ==
    [][ (phase' = "done" /\ req'.op = "POST /login")
            => /\ (res'.status = 200 /\ res'.kind = "token")
                    <=> /\ ~falsy(req'.body.email) /\ ~falsy(req'.body.password)
                        /\ Registered(usersAuth, req'.body)
               /\ res'.kind = "token"
                    => \E i \in 1 .. Len(usersAuth) :
                          /\ usersAuth[i].email = req'.body.email
                          /\ bcryptCompare(req'.body.password, usersAuth[i].passwordHash)
                          /\ res'.token.jwt.id = usersAuth[i].id
                          /\ res'.token.jwt.email = usersAuth[i].email.s ]_vars

\* C19: POST /register and POST /login whose email or password is missing or
\* empty are answered 400 "Email and password are required", whatever the
\* credential store holds, and leave the store and the suspended requests as
\* they were; so a registration of a registered email with an empty password
\* gets this answer and not "Email already exists".
C19_RequiredFirst ==
    [][ (/\ phase = "pending"
         /\ req.op \in {"POST /register", "POST /login"}
         /\ (falsy(req.body.email) \/ falsy(req.body.password)))
            => /\ res' = MessageResponse(400, "Email and password are required")
               /\ phase' = "done"
               /\ usersAuth' = usersAuth
               /\ pending' = pending ]_vars

\* A registration of a registered email with an empty password was answered
\* "required".
C19_Witness ==
    /\ Served("POST /register")
    /\ req.body.email \in EmailsOf(usersAuth)
    /\ req.body.password = Str("")
    /\ res = RequiredResponse

C22_IdsIncreasing ==
    \A i, j \in 1 .. Len(users) : i < j => users[i].id < users[j].id

\* Two profiles are in the collection after an earlier one was deleted and a
\* later one created.
C22_Witness ==
    /\ Len(users) = 2
    /\ users[1].id > 1
    /\ Served("POST /users") /\ res.status = 201

\* ------------------------------------------------------------ frame effects
ReadOnly == {"GET /hello", "GET /users", "GET /users/:id", "GET /next-id", "POST /login"}
\* The id after the last profile's, 1 for the empty collection.
IdAfterLast == IF users = <<>> THEN 1 ELSE users[Len(users)].id + 1

\* C23: GET /hello, GET /users, GET /users/{id}, GET /next-id and POST /login,
\* before and after its await, leave the profile collection and the
\* credential store as they were; GET /next-id answers the id that a create
\* answered 201 in its place is given; and every step keeps the credential
\* records there are, in their order: registration only appends, and no
\* operation, DELETE /users included, changes or removes one.
C23_ReadOnly ==
    [][ /\ ((phase = "pending" /\ req.op \in ReadOnly) \/ Completes("POST /login"))
            => users' = users /\ usersAuth' = usersAuth
        /\ Serves("GET /next-id") => res' = NextIdResponse(IdAfterLast)
        /\ (Serves("POST /users") /\ res'.status = 201)
            => res'.users[1].id = IdAfterLast
        /\ /\ Len(usersAuth') >= Len(usersAuth)
           /\ SubSeq(usersAuth', 1, Len(usersAuth)) = usersAuth ]_vars

\* DELETE /users emptied the profile collection, in which a profile had been
\* created, and the two credential records are still there.
C23_Witness ==
    /\ Served("DELETE /users") /\ res = EmptyResponse
    /\ maxIssued >= 1 /\ cleared
    /\ Len(usersAuth) = 2

\* GET /next-id answered 2 while a login was suspended at its await.
C23_NextIdDuringLogin ==
    /\ Served("GET /next-id") /\ res = NextIdResponse(2)
    /\ awaiting("POST /login") # {}

\* ---------------------------------------------------------- credential ids
\* C24: the id of the record that POST /register stores is the id after the
\* last profile's (1 for the empty profile collection) at the moment the
\* record is pushed, after the hashing; and the token of a login carries the
\* id and the email of a credential record.  So credentials pushed while the
\* profile collection stays the same get the same id (C24_Witness).
C24_CredentialId ==
    [][ /\ Completes("POST /register")
            => usersAuth'[Len(usersAuth')].id = IdAfterLast
        /\ (phase' = "done" /\ res'.kind = "token")
            => \E i \in 1 .. Len(usersAuth) :
                  /\ usersAuth[i].email.s = res'.token.jwt.email
                  /\ usersAuth[i].id = res'.token.jwt.id ]_vars

\* Two credentials of different emails have the same id, and a token issued
\* for the second carries the id of the first.
C24_Witness ==
    /\ Served("POST /login") /\ res.kind = "token"
    /\ Len(usersAuth) = 2
    /\ usersAuth[1].email # usersAuth[2].email
    /\ usersAuth[1].id = usersAuth[2].id
    /\ res.token.jwt.email = usersAuth[2].email.s
    /\ res.token.jwt.id = usersAuth[1].id

\* A profile was created while a registration was suspended at bcrypt.hash:
\* the registration will store the id after this profile's.
C24_CreateDuringHashing ==
    /\ Served("POST /users") /\ res.status = 201
    /\ awaiting("POST /register") # {}

\* --------------------------------------------------------------- refinement
ProfileRoutes == Protected \cup {"GET /users", "GET /users/:id", "GET /next-id"}

\* C25: from one and the same profile collection, a request to /users,
\* /users/{id} or /next-id, carrying an accepted token where the route is
\* protected, gets from the application the response, and leaves the
\* collection, that the variant without authentication gives and leaves; and
\* the steps of registration and login, and every step between requests,
\* leave the collection as it is.  Both variants start from the empty
\* collection, so along every sequence of such requests they agree at every
\* step, whatever registrations and logins are interleaved.
C25_Refines ==
    [][ /\ (/\ phase = "pending" /\ req.op \in ProfileRoutes
            /\ req.op \in Protected => jwtVerify(bearerToken(req.hdr)))
            => /\ users' = unauthenticated(users, req).users
               /\ res' = unauthenticated(users, req).res
        /\ (phase # "pending" \/ req.op \in {"POST /register", "POST /login"})
            => users' = users ]_vars

\* A profile was updated with an issued token while a login was suspended at
\* its await.
C25_Witness ==
    /\ Served("PUT /users/:id") /\ res.status = 200
    /\ req.hdr.words[2] \in tokens
    /\ awaiting("POST /login") # {}
    /\ Len(users) = 1

====
